---------------------------- MODULE Spec2Model ----------------------------
(***************************************************************************)
(* Announcements router of the High School Management System API           *)
(* (src/backend/routers/announcements.py).                                 *)
(*                                                                         *)
(* Python strings are modelled as sequences of character codes, so that    *)
(* str.strip, the lexicographic comparisons of ISO dates, date.isoformat   *)
(* and datetime.fromisoformat are computed rather than assumed.  MongoDB   *)
(* documents are functions from key names to values; a collection is the   *)
(* sequence of its documents in insertion (natural) order.                 *)
(*                                                                         *)
(* Line 139 of the source (`del announcement["_id"] if ... else None`) is  *)
(* not valid Python; it is modelled by what it evidently means: drop the   *)
(* "_id" key from the response when insert_one has added it.               *)
(***************************************************************************)
EXTENDS Integers, Sequences, FiniteSets, TLC

(* ------------------------------ bounds ------------------------------- *)

\* documents insert_one may create in one behaviour
MaxOid == 2
\* half-day steps the wall clock may take in one behaviour
MaxTicks == 2

(* --------------------------- Python values --------------------------- *)

\* Python's None: a sequence that is no string (no character has code -1)
None == << -1 >>

\* truthiness of an Optional[str]: None and "" are falsy
Truthy(s) == s # None /\ Len(s) > 0

SetMin(S) == CHOOSE x \in S : \A y \in S : x <= y
SetMax(S) == CHOOSE x \in S : \A y \in S : x >= y

\* str < str and str <= str: comparison by code point, a proper prefix is smaller
StrLess(a, b) ==
    LET n    == IF Len(a) < Len(b) THEN Len(a) ELSE Len(b)
        diff == {i \in 1..n : a[i] # b[i]}
    IN  IF diff = {} THEN Len(a) < Len(b)
        ELSE a[SetMin(diff)] < b[SetMin(diff)]

StrLeq(a, b) == a = b \/ StrLess(a, b)

\* the ASCII characters str.strip() removes
IsSpace(c) == c \in {9, 10, 11, 12, 13, 28, 29, 30, 31, 32}

\* str.strip()
strip(s) ==
    LET keep == {i \in 1..Len(s) : ~IsSpace(s[i])}
    IN  IF keep = {} THEN << >> ELSE SubSeq(s, SetMin(keep), SetMax(keep))

IsDigit(c) == c \in 48..57
Pad2(n) == << 48 + (n \div 10), 48 + (n % 10) >>
Pad4(n) == << 48 + (n \div 1000), 48 + ((n \div 100) % 10),
              48 + ((n \div 10) % 10), 48 + (n % 10) >>
Num2(s, i) == (s[i] - 48) * 10 + (s[i + 1] - 48)
Num4(s, i) == Num2(s, i) * 100 + Num2(s, i + 2)

IsLeap(y) == (y % 4 = 0 /\ y % 100 # 0) \/ y % 400 = 0
DaysInMonth(y, m) ==
    IF m = 2 THEN (IF IsLeap(y) THEN 29 ELSE 28)
    ELSE IF m \in {4, 6, 9, 11} THEN 30 ELSE 31

\* date.isoformat(): YYYY-MM-DD, zero padded
date_isoformat(t) == Pad4(t.y) \o << 45 >> \o Pad2(t.m) \o << 45 >> \o Pad2(t.d)

\* datetime.isoformat() of an instant with no microseconds: YYYY-MM-DDTHH:MM:SS
datetime_isoformat(t) ==
    date_isoformat(t) \o << 84 >> \o Pad2(t.h) \o << 58, 48, 48, 58, 48, 48 >>

\* the YYYY-MM-DD part of an ISO string names a day of the calendar
IsCalendarPrefix(s) ==
    /\ Len(s) >= 10
    /\ \A i \in {1, 2, 3, 4, 6, 7, 9, 10} : IsDigit(s[i])
    /\ s[5] = 45 /\ s[8] = 45
    /\ Num4(s, 1) >= 1
    /\ Num2(s, 6) \in 1..12
    /\ Num2(s, 9) \in 1..DaysInMonth(Num4(s, 1), Num2(s, 6))

\* datetime.fromisoformat(s) does not raise ValueError.  Modelled for the
\* forms YYYY-MM-DD[*HH[:MM[:SS]]] (any one character as separator), on which
\* every Python version from 3.7 on agrees; the input pools hold no other form.
fromisoformat_ok(s) ==
    /\ s # None
    /\ IsCalendarPrefix(s)
    /\ Len(s) \in {10, 13, 16, 19}
    /\ Len(s) >= 13 => /\ IsDigit(s[12]) /\ IsDigit(s[13])
                       /\ Num2(s, 12) < 24
    /\ Len(s) >= 16 => /\ s[14] = 58 /\ IsDigit(s[15]) /\ IsDigit(s[16])
                       /\ Num2(s, 15) < 60
    /\ Len(s) >= 19 => /\ s[17] = 58 /\ IsDigit(s[18]) /\ IsDigit(s[19])
                       /\ Num2(s, 18) < 60

(* ----------------------------- ObjectId ------------------------------ *)

IsHex(c) == c \in 48..57 \/ c \in 97..102 \/ c \in 65..70
LowerHex(c) == IF c \in 65..70 THEN c + 32 ELSE c

\* bson.ObjectId(s) does not raise: s is 24 hexadecimal characters
ObjectId_ok(s) == Len(s) = 24 /\ \A i \in 1..24 : IsHex(s[i])

\* the ObjectId a valid string denotes, held as its canonical (lower case) hex
ObjectId(s) == [i \in 1..24 |-> LowerHex(s[i])]

\* str(ObjectId)
oid_str(oid) == oid

\* the n-th identifier the store generates (n < 16): unique per insert
NewObjectId(n) ==
    [i \in 1..24 |-> IF i < 24 THEN 48 ELSE IF n < 10 THEN 48 + n ELSE 87 + n]


(* ------------------------- store and clock --------------------------- *)

VARIABLES
    announcements_collection,  \* the announcement documents, in insertion order
    nextOid,                   \* how many identifiers the store has generated
    now,                       \* the wall clock: [y, m, d, h]
    ticks,                     \* steps the clock has taken
    inflight,                  \* per worker: the update request it is serving
    last                       \* the request last answered and its response

vars == << announcements_collection, nextOid, now, ticks, inflight, last >>

\* a few words
T_a == << 97 >>
T_b == << 98 >>
T_z == << 122 >>
EmptyStr == << >>
Blank == << 32 >>
Hi == << 72, 105 >>
PaddedHi == << 32, 72, 105, 32 >>
Yo == << 89, 111 >>
NotADate == << 50, 48, 50, 53, 45, 48, 50, 45, 51, 48 >>   \* "2025-02-30"

\* the principal registry (read-only here): the registered teacher usernames
teachers_collection == {T_a, T_b}

\* the instant the clock starts at, and the days around it
Epoch == [y |-> 2025, m |-> 12, d |-> 31, h |-> 0]
Day0 == date_isoformat([y |-> 2025, m |-> 12, d |-> 30])
Day1 == date_isoformat([y |-> 2025, m |-> 12, d |-> 31])
Day2 == date_isoformat([y |-> 2026, m |-> 1, d |-> 1])
Day1Morning == Day1 \o << 84, 48, 57, 58, 48, 48 >>          \* "2025-12-31T09:00"

\* a document written to the collection by another client of the database,
\* without created_at (the case lines 49 and 74 give a default key for)
LegacyOid == [i \in 1..24 |-> 97]
LegacyDoc ==
    [_id |-> LegacyOid, message |-> Yo, start_date |-> None,
     expiration_date |-> Day1, created_by |-> T_b]

\* datetime.now().date().isoformat()
Today == date_isoformat(now)

\* the request workers that may serve an update at the same time
Workers == {"w1", "w2"}
Idle == [pc |-> "idle", announcement_id |-> None, message |-> None,
         expiration_date |-> None, start_date |-> None, teacher_username |-> None]

(* --------------------------- store calls ----------------------------- *)

Put(d, k, v) == [x \in DOMAIN d \cup {k} |-> IF x = k THEN v ELSE d[x]]

\* collection.find_one({"_id": oid}): << >> for None, else << document >>
find_one(coll, oid) ==
    LET hit == {i \in 1..Len(coll) : coll[i]["_id"] = oid}
    IN  IF hit = {} THEN << >> ELSE << coll[SetMin(hit)] >>

\* a write whose filter is lost: every document is updated
update_one_unfiltered(coll, oid, data) ==
    [i \in 1..Len(coll) |->
        [x \in DOMAIN coll[i] \cup DOMAIN data |->
            IF x \in DOMAIN data THEN data[x] ELSE coll[i][x]]]

\* collection.update_one({"_id": oid}, {"$set": data}): the collection after
update_one(coll, oid, data) ==
    [i \in 1..Len(coll) |->
        IF coll[i]["_id"] = oid
        THEN [x \in DOMAIN coll[i] \cup DOMAIN data |->
                 IF x \in DOMAIN data THEN data[x] ELSE coll[i][x]]
        ELSE coll[i]]

\* result.matched_count of that update_one
matched_count(coll, oid) == IF find_one(coll, oid) = << >> THEN 0 ELSE 1

\* result.modified_count of that update_one
modified_count(coll, oid, data) ==
    IF update_one(coll, oid, data) = coll THEN 0 ELSE 1

RECURSIVE Without(_, _)
Without(coll, oid) ==
    IF coll = << >> THEN << >>
    ELSE IF Head(coll)["_id"] = oid THEN Without(Tail(coll), oid)
    ELSE << Head(coll) >> \o Without(Tail(coll), oid)

\* collection.delete_one({"_id": oid}): the collection after
delete_one(coll, oid) == Without(coll, oid)

\* a delete that always reports one deleted document
deleted_count_one(coll, oid) == 1

\* result.deleted_count of that delete_one
deleted_count(coll, oid) == IF find_one(coll, oid) = << >> THEN 0 ELSE 1

\* an insert that is acknowledged and not stored
insert_one_lost(coll, doc, n) == coll

\* collection.insert_one(doc): the store generates the "_id"
insert_one(coll, doc, n) == Append(coll, Put(doc, "_id", NewObjectId(n)))

(* ---------------------------- the router ----------------------------- *)

serialize_announcement(a) ==
    IF "_id" \in DOMAIN a
    THEN [x \in (DOMAIN a \ {"_id"}) \cup {"id"} |->
             IF x = "id" THEN oid_str(a["_id"]) ELSE a[x]]
    ELSE a

\* key=lambda x: x.get("created_at", "")
SortKey(x) == IF "created_at" \in DOMAIN x THEN x["created_at"] ELSE EmptyStr

\* the sort left out: the records stay in the store's order
Unsorted(s) == s

\* list.sort(key=..., reverse=True): stable, descending
RECURSIVE SortNewestFirst(_)
SortNewestFirst(s) ==
    IF s = << >> THEN << >>
    ELSE LET rest == SortNewestFirst(SubSeq(s, 1, Len(s) - 1))
             x    == s[Len(s)]
             keep == {i \in 1..Len(rest) : StrLeq(SortKey(x), SortKey(rest[i]))}
             k    == IF keep = {} THEN 0 ELSE SetMax(keep)
         IN  SubSeq(rest, 1, k) \o << x >> \o SubSeq(rest, k + 1, Len(rest))

\* the filter without the start_date test of line 45
RECURSIVE SelectUnexpired(_, _)
SelectUnexpired(coll, today) ==
    IF coll = << >> THEN << >>
    ELSE (IF StrLeq(today, Head(coll)["expiration_date"])
          THEN << serialize_announcement(Head(coll)) >> ELSE << >>)
         \o SelectUnexpired(Tail(coll), today)

\* lines 37-46: the find on expiration_date >= today, then the start_date test
RECURSIVE SelectDocs(_, _)
SelectDocs(coll, today) ==
    IF coll = << >> THEN << >>
    ELSE LET a == Head(coll)
         IN  (IF /\ StrLeq(today, a["expiration_date"])
                 /\ (a["start_date"] = None \/ StrLeq(a["start_date"], today))
              THEN << serialize_announcement(a) >> ELSE << >>)
             \o SelectDocs(Tail(coll), today)

Response(op, u, id, m, e, s, status, detail, body) ==
    [op |-> op, teacher_username |-> u, announcement_id |-> id, message |-> m,
     expiration_date |-> e, start_date |-> s, today |-> Today,
     status |-> status, detail |-> detail, body |-> body]

\* the authentication without the lookup in the registry
AuthErrorUnchecked(teacher_username) ==
    IF ~Truthy(teacher_username) THEN "Authentication required for this action"
    ELSE ""

\* lines 60-67, 95-102, 156-163, 224-231: the first failing check of the
\* teacher authentication, "" when it passes
AuthError(teacher_username) ==
    IF ~Truthy(teacher_username) THEN "Authentication required for this action"
    ELSE IF teacher_username \notin teachers_collection
    THEN "Invalid teacher credentials"
    ELSE ""

get_active_announcements ==
    /\ last' = Response("list_active", None, None, None, None, None, 200, "",
                        SortNewestFirst(SelectDocs(announcements_collection, Today)))
    /\ UNCHANGED << announcements_collection, nextOid, now, ticks, inflight >>

get_all_announcements(teacher_username) ==
    LET R(status, detail, body) ==
            Response("list_all", teacher_username, None, None, None, None,
                     status, detail, body)
    IN  /\ last' =
             IF AuthError(teacher_username) # ""
             THEN R(401, AuthError(teacher_username), << >>)
             ELSE R(200, "",
                    SortNewestFirst([i \in 1..Len(announcements_collection) |->
                        serialize_announcement(announcements_collection[i])]))
        /\ UNCHANGED << announcements_collection, nextOid, now, ticks, inflight >>

\* the field checks of create (with the expiration-in-the-future check) and of
\* update (without it): the detail of the first that fails, "" when all pass
FieldError(message, expiration_date, start_date, today, checkFuture) ==
    IF ~Truthy(message) \/ ~Truthy(strip(message)) THEN "Message is required"
    ELSE IF ~Truthy(expiration_date) THEN "Expiration date is required"
    ELSE IF \/ ~fromisoformat_ok(expiration_date)
            \/ (Truthy(start_date) /\ ~fromisoformat_ok(start_date))
    THEN "Invalid date format. Use YYYY-MM-DD"
    ELSE IF checkFuture /\ StrLess(expiration_date, today)
    THEN "Expiration date must be in the future"
    ELSE IF Truthy(start_date) /\ StrLess(expiration_date, start_date)
    THEN "Start date must be before expiration date"
    ELSE ""

create_announcement(message, expiration_date, start_date, teacher_username) ==
    LET R(status, detail, body) ==
            Response("create", teacher_username, None, message, expiration_date,
                     start_date, status, detail, body)
        auth  == AuthError(teacher_username)
        field == FieldError(message, expiration_date, start_date, Today, TRUE)
        announcement ==
            [message |-> strip(message), start_date |-> start_date,
             expiration_date |-> expiration_date,
             created_by |-> teacher_username,
             created_at |-> datetime_isoformat(now)]
    IN  IF auth # "" THEN
            /\ last' = R(401, auth, << >>)
            /\ UNCHANGED << announcements_collection, nextOid, now, ticks, inflight >>
        ELSE IF field # "" THEN
            /\ last' = R(400, field, << >>)
            /\ UNCHANGED << announcements_collection, nextOid, now, ticks, inflight >>
        ELSE
            /\ announcements_collection' =
                   insert_one(announcements_collection, announcement, nextOid)
            /\ nextOid' = nextOid + 1
            /\ last' = R(200, "",
                   << Put(announcement, "id", oid_str(NewObjectId(nextOid))) >>)
            /\ UNCHANGED << now, ticks, inflight >>

update_announcement(announcement_id, message, expiration_date, start_date, teacher_username) ==
    LET R(status, detail, body) ==
            Response("update", teacher_username, announcement_id, message,
                     expiration_date, start_date, status, detail, body)
        auth   == AuthError(teacher_username)
        obj_id == ObjectId(announcement_id)
        field  == FieldError(message, expiration_date, start_date, Today, FALSE)
        update_data ==
            [message |-> strip(message), start_date |-> start_date,
             expiration_date |-> expiration_date]
        after  == update_one(announcements_collection, obj_id, update_data)
    IN  IF auth # "" THEN
            /\ last' = R(401, auth, << >>)
            /\ UNCHANGED << announcements_collection, nextOid, now, ticks, inflight >>
        ELSE IF ~ObjectId_ok(announcement_id) THEN
            /\ last' = R(400, "Invalid announcement ID", << >>)
            /\ UNCHANGED << announcements_collection, nextOid, now, ticks, inflight >>
        ELSE IF find_one(announcements_collection, obj_id) = << >> THEN
            /\ last' = R(404, "Announcement not found", << >>)
            /\ UNCHANGED << announcements_collection, nextOid, now, ticks, inflight >>
        ELSE IF field # "" THEN
            /\ last' = R(400, field, << >>)
            /\ UNCHANGED << announcements_collection, nextOid, now, ticks, inflight >>
        ELSE
            /\ announcements_collection' = after
            /\ last' =
                 IF /\ modified_count(announcements_collection, obj_id, update_data) = 0
                    /\ matched_count(announcements_collection, obj_id) = 0
                 THEN R(500, "Failed to update announcement", << >>)
                 ELSE R(200, "", << serialize_announcement(find_one(after, obj_id)[1]) >>)
            /\ UNCHANGED << nextOid, now, ticks, inflight >>

delete_announcement(announcement_id, teacher_username) ==
    LET R(status, detail) ==
            Response("delete", teacher_username, announcement_id, None, None,
                     None, status, detail, << >>)
        auth   == AuthError(teacher_username)
        obj_id == ObjectId(announcement_id)
    IN  IF auth # "" THEN
            /\ last' = R(401, auth)
            /\ UNCHANGED << announcements_collection, nextOid, now, ticks, inflight >>
        ELSE IF ~ObjectId_ok(announcement_id) THEN
            /\ last' = R(400, "Invalid announcement ID")
            /\ UNCHANGED << announcements_collection, nextOid, now, ticks, inflight >>
        ELSE
            /\ announcements_collection' = delete_one(announcements_collection, obj_id)
            /\ last' = IF deleted_count(announcements_collection, obj_id) = 0
                       THEN R(404, "Announcement not found")
                       ELSE R(200, "Announcement deleted successfully")
            /\ UNCHANGED << nextOid, now, ticks, inflight >>

\* the wall clock moves on by half a day
Tick ==
    /\ ticks < MaxTicks
    /\ ticks' = ticks + 1
    /\ now' = IF now.h < 12 THEN [now EXCEPT !.h = 12]
              ELSE IF now.d < DaysInMonth(now.y, now.m)
              THEN [now EXCEPT !.d = now.d + 1, !.h = 0]
              ELSE IF now.m < 12 THEN [now EXCEPT !.m = now.m + 1, !.d = 1, !.h = 0]
              ELSE [y |-> now.y + 1, m |-> 1, d |-> 1, h |-> 0]
    /\ UNCHANGED << announcements_collection, nextOid, inflight, last >>

(* ------------- Spec: requests served one after another --------------- *)

Ids == {oid_str(NewObjectId(n)) : n \in 0..(MaxOid - 1)} \cup {oid_str(LegacyOid), Hi}

Init ==
    /\ announcements_collection \in {<< >>, << LegacyDoc >>}
    /\ nextOid = 0
    /\ now = Epoch
    /\ ticks = 0
    /\ inflight = [w \in Workers |-> Idle]
    /\ last = Response("none", None, None, None, None, None, 0, "", << >>)

ListActive == get_active_announcements

ListAll == get_all_announcements(T_a)

Create ==
    /\ \E e \in {Day1, Day2}, s \in {None, Day2} :
           create_announcement(PaddedHi, e, s, T_a)
    /\ nextOid' <= MaxOid

Update == \E id \in Ids : update_announcement(id, Yo, Day0, None, T_b)

Delete == \E id \in Ids : delete_announcement(id, T_a)

Next == Tick \/ ListActive \/ ListAll \/ Create \/ Update \/ Delete

Spec == Init /\ [][Next]_vars

(* ------ SpecInput: one request after another, over wide inputs ------- *)

BadCredentials == {None, EmptyStr, T_z}
IdsInput == {oid_str(NewObjectId(0)), oid_str(LegacyOid), Hi}

InitInput == Init /\ announcements_collection = << >>

InListActive == get_active_announcements

InListAll == \E u \in BadCredentials \cup {T_a} : get_all_announcements(u)

InCreate ==
    /\ \/ \E m \in {EmptyStr, Blank, PaddedHi},
             e \in {EmptyStr, NotADate, Day0, Day1, Day1Morning},
             s \in {None, EmptyStr, NotADate, Day2} :
                 create_announcement(m, e, s, T_a)
       \/ \E u \in BadCredentials, m \in {Blank, PaddedHi}, e \in {NotADate, Day1} :
                 create_announcement(m, e, None, u)
    /\ nextOid' < MaxOid

InUpdate ==
    \/ \E id \in IdsInput, m \in {Blank, Yo}, e \in {NotADate, Day0},
          s \in {None, Day2} :
              update_announcement(id, m, e, s, T_b)
    \/ \E u \in {None, T_z}, id \in {oid_str(NewObjectId(0)), Hi}, m \in {Blank, Yo} :
              update_announcement(id, m, Day0, None, u)

InDelete ==
    \E id \in IdsInput, u \in {None, T_z, T_a} : delete_announcement(id, u)

NextInput == InListActive \/ InListAll \/ InCreate \/ InUpdate \/ InDelete

SpecInput == InitInput /\ [][NextInput]_vars

(* ---- SpecRace: updates served concurrently, one store call a step ---- *)

\* lines 155-193 of update_announcement: the checks, with the find_one of line 172
update_begin(w, announcement_id, message, expiration_date, start_date, teacher_username) ==
    LET R(status, detail) ==
            Response("update", teacher_username, announcement_id, message,
                     expiration_date, start_date, status, detail, << >>)
        auth   == AuthError(teacher_username)
        obj_id == ObjectId(announcement_id)
        field  == FieldError(message, expiration_date, start_date, Today, FALSE)
    IN  /\ inflight[w].pc = "idle"
        /\ IF auth # "" THEN
               last' = R(401, auth) /\ UNCHANGED inflight
           ELSE IF ~ObjectId_ok(announcement_id) THEN
               last' = R(400, "Invalid announcement ID") /\ UNCHANGED inflight
           ELSE IF find_one(announcements_collection, obj_id) = << >> THEN
               last' = R(404, "Announcement not found") /\ UNCHANGED inflight
           ELSE IF field # "" THEN
               last' = R(400, field) /\ UNCHANGED inflight
           ELSE
               /\ inflight' = [inflight EXCEPT ![w] =
                      [pc |-> "update_one", announcement_id |-> announcement_id,
                       message |-> message, expiration_date |-> expiration_date,
                       start_date |-> start_date,
                       teacher_username |-> teacher_username]]
               /\ UNCHANGED last
        /\ UNCHANGED << announcements_collection, nextOid, now, ticks >>

\* lines 195-208: the update_one and the check of its counts
update_write(w) ==
    LET r      == inflight[w]
        obj_id == ObjectId(r.announcement_id)
        update_data ==
            [message |-> strip(r.message), start_date |-> r.start_date,
             expiration_date |-> r.expiration_date]
    IN  /\ r.pc = "update_one"
        /\ announcements_collection' =
               update_one(announcements_collection, obj_id, update_data)
        /\ IF /\ modified_count(announcements_collection, obj_id, update_data) = 0
              /\ matched_count(announcements_collection, obj_id) = 0
           THEN /\ last' = Response("update", r.teacher_username, r.announcement_id,
                               r.message, r.expiration_date, r.start_date,
                               500, "Failed to update announcement", << >>)
                /\ inflight' = [inflight EXCEPT ![w] = Idle]
           ELSE /\ inflight' = [inflight EXCEPT ![w].pc = "find_one"]
                /\ UNCHANGED last
        /\ UNCHANGED << nextOid, now, ticks >>

\* lines 210-212: the re-read; serialize_announcement(None) raises TypeError,
\* which no handler catches: the framework answers 500 Internal Server Error
update_return(w) ==
    LET r       == inflight[w]
        updated == find_one(announcements_collection, ObjectId(r.announcement_id))
        R(status, detail, body) ==
            Response("update", r.teacher_username, r.announcement_id, r.message,
                     r.expiration_date, r.start_date, status, detail, body)
    IN  /\ r.pc = "find_one"
        /\ last' = IF updated = << >>
                   THEN R(500, "Internal Server Error", << >>)
                   ELSE R(200, "", << serialize_announcement(updated[1]) >>)
        /\ inflight' = [inflight EXCEPT ![w] = Idle]
        /\ UNCHANGED << announcements_collection, nextOid, now, ticks >>

RaceCreate ==
    /\ create_announcement(PaddedHi, Day2, None, T_a)
    /\ nextOid' <= MaxOid

RaceDelete == \E id \in Ids : delete_announcement(id, T_a)

RaceUpdateBegin ==
    \E w \in Workers, id \in Ids, m \in {Yo, Hi} :
        update_begin(w, id, m, Day2, None, T_b)

RaceUpdateWrite == \E w \in Workers : update_write(w)

RaceUpdateReturn == \E w \in Workers : update_return(w)

NextRace ==
    RaceCreate \/ RaceDelete \/ RaceUpdateBegin \/ RaceUpdateWrite \/ RaceUpdateReturn

SpecRace == InitInput /\ [][NextRace]_vars

(* ----------------------------- properties ---------------------------- *)

\* the step answers a request of the given kind (the clock does not answer)
Served(op) == last'.op = op /\ ticks' = ticks

Indices(s) == 1..Len(s)
IdsOf(coll) == {coll[i]["_id"] : i \in Indices(coll)}

\* the activity predicate of the data model, by string comparison of ISO dates
IsActive(a, today) ==
    /\ StrLeq(today, a["expiration_date"])
    /\ (a["start_date"] = None \/ StrLeq(a["start_date"], today))

\* the wire form of a stored document, by its fields
Wire(a, r) ==
    /\ DOMAIN r = (DOMAIN a \ {"_id"}) \cup {"id"}
    /\ r["id"] = a["_id"]
    /\ \A x \in DOMAIN a \ {"_id"} : r[x] = a[x]

\* C1: list_active returns exactly the stored announcements with
\* expiration_date >= today and (start_date absent or start_date <= today),
\* each once, and leaves the store unchanged.
C1_ListActiveExact ==
    [][Served("list_active") =>
          /\ announcements_collection' = announcements_collection
          /\ last'.status = 200
          /\ \A i \in Indices(last'.body) :
                \E j \in Indices(announcements_collection) :
                    /\ Wire(announcements_collection[j], last'.body[i])
                    /\ IsActive(announcements_collection[j], Today)
          /\ \A j \in Indices(announcements_collection) :
                IsActive(announcements_collection[j], Today) =>
                    \E i \in Indices(last'.body) :
                        Wire(announcements_collection[j], last'.body[i])
          /\ \A i, k \in Indices(last'.body) :
                last'.body[i]["id"] = last'.body[k]["id"] => i = k]_vars

\* a list_active answer that returns one record and leaves out both an
\* expired one and one that has not started
C1_Witness ==
    /\ last.op = "list_active"
    /\ Len(last.body) = 1
    /\ \E j \in Indices(announcements_collection) :
          StrLess(announcements_collection[j]["expiration_date"], last.today)
    /\ \E j \in Indices(announcements_collection) :
          /\ announcements_collection[j]["start_date"] # None
          /\ StrLess(last.today, announcements_collection[j]["start_date"])

\* the sort key of a returned record: created_at, the empty string when missing
CreatedAtOrEmpty(r) == IF "created_at" \in DOMAIN r THEN r["created_at"] ELSE << >>

\* C9: list_active and list_all return their records newest-created first, a
\* record without created_at sorting as the empty string, i.e. last: of two
\* returned records the earlier in the result has the greater or equal key.
C9_NewestFirst ==
    (last.op \in {"list_active", "list_all"} /\ last.status = 200) =>
        /\ \A i, j \in Indices(last.body) :
              i < j => StrLeq(CreatedAtOrEmpty(last.body[j]),
                              CreatedAtOrEmpty(last.body[i]))
        /\ \A i, j \in Indices(last.body) :
              ("created_at" \notin DOMAIN last.body[i]
                 /\ "created_at" \in DOMAIN last.body[j]) => j < i

\* list_active returns [B, A, legacy] from a store holding legacy, A, B in
\* that order, B created after A and legacy without created_at
C9_Witness ==
    /\ last.op = "list_active"
    /\ Len(last.body) = 3
    /\ Len(announcements_collection) = 3
    /\ "created_at" \notin DOMAIN announcements_collection[1]
    /\ Wire(announcements_collection[1], last.body[3])
    /\ Wire(announcements_collection[2], last.body[2])
    /\ Wire(announcements_collection[3], last.body[1])
    /\ StrLess(last.body[2]["created_at"], last.body[1]["created_at"])

\* the documents of coll whose "_id" is oid
Matching(coll, oid) == {i \in Indices(coll) : coll[i]["_id"] = oid}

\* the identifiers the store has generated so far
Generated == {NewObjectId(n) : n \in 0..(nextOid - 1)}

\* C8: every operation changes at most one stored record and nothing else.
\* A successful create appends one record with a fresh id; a successful update
\* changes only message, start_date and expiration_date of its target; a
\* successful delete removes exactly its target; every other step (the lists,
\* the failures, the passing of time) leaves the store unchanged.  So a record
\* keeps id, created_by and created_at, and leaves only by a delete.
C8_Frame ==
    [][LET coll  == announcements_collection
           coll2 == announcements_collection'
           ok    == last'.status = 200
           target == ObjectId(last'.announcement_id)
       IN  /\ (Served("create") /\ ok) =>
                 /\ Len(coll2) = Len(coll) + 1
                 /\ SubSeq(coll2, 1, Len(coll)) = coll
                 /\ coll2[Len(coll2)]["_id"] \notin IdsOf(coll) \cup Generated
           /\ (Served("update") /\ ok) =>
                 /\ Len(coll2) = Len(coll)
                 /\ Cardinality(Matching(coll, target)) = 1
                 /\ \A i \in Indices(coll) :
                       IF coll[i]["_id"] = target
                       THEN /\ DOMAIN coll2[i] = DOMAIN coll[i]
                            /\ \A x \in DOMAIN coll[i] \
                                   {"message", "start_date", "expiration_date"} :
                                   coll2[i][x] = coll[i][x]
                       ELSE coll2[i] = coll[i]
           /\ (Served("delete") /\ ok) =>
                 \E k \in Indices(coll) :
                     /\ coll[k]["_id"] = target
                     /\ coll2 = SubSeq(coll, 1, k - 1) \o SubSeq(coll, k + 1, Len(coll))
           /\ ~(ok /\ (Served("create") \/ Served("update") \/ Served("delete")))
                 => coll2 = coll
           /\ \A i \in Indices(coll) :
                 \/ \E j \in Indices(coll2) :
                       /\ coll2[j]["_id"] = coll[i]["_id"]
                       /\ coll2[j]["created_by"] = coll[i]["created_by"]
                       /\ CreatedAtOrEmpty(coll2[j]) = CreatedAtOrEmpty(coll[i])
                 \/ (Served("delete") /\ ok /\ coll[i]["_id"] = target)]_vars

\* an update by another principal has rewritten one of two stored records,
\* which is now expired and still stored
C8_Witness ==
    /\ last.op = "update" /\ last.status = 200
    /\ Len(announcements_collection) >= 2
    /\ \E i \in Indices(announcements_collection) :
          /\ announcements_collection[i]["_id"] = ObjectId(last.announcement_id)
          /\ announcements_collection[i]["created_by"] # last.teacher_username
          /\ announcements_collection[i]["message"] = strip(last.message)
          /\ StrLess(announcements_collection[i]["expiration_date"], Today)

\* the records of a list_all answer that match a create request as sent
MatchesAsSent(r, c) ==
    /\ r["message"] = c.message
    /\ r["expiration_date"] = c.expiration_date
    /\ r["start_date"] = c.start_date
    /\ r["created_by"] = c.teacher_username

\* the same, the message compared after trimming
MatchesTrimmed(r, c) ==
    /\ r["message"] = strip(c.message)
    /\ r["expiration_date"] = c.expiration_date
    /\ r["start_date"] = c.start_date
    /\ r["created_by"] = c.teacher_username

\* a successful list_all directly after a successful create
CreateThenListAll ==
    /\ last.op = "create" /\ last.status = 200
    /\ Served("list_all") /\ last'.status = 200

\* C4 as stated: after a successful create, list_all holds exactly one record
\* whose message, expiration_date and start_date equal the create input and
\* whose created_by is the creating principal, and the create response is
\* that stored record with its id.
C4_ExactlyOneMatchesInput ==
    [][CreateThenListAll =>
          /\ Cardinality({i \in Indices(last'.body) :
                             MatchesAsSent(last'.body[i], last)}) = 1
          /\ \E i \in Indices(last'.body) : last'.body[i] = last.body[1]]_vars

\* C4 amended: after a successful create, list_all holds exactly one record
\* with the id the create returned; it is the create response itself, its
\* message is the trimmed input message, its dates are the input's and its
\* created_by is the creating principal.  Records of earlier creates with the
\* same input are listed as well.
C4_ExactlyOneWithReturnedId ==
    [][CreateThenListAll =>
          /\ "id" \in DOMAIN last.body[1]
          /\ "_id" \notin DOMAIN last.body[1]
          /\ Cardinality({i \in Indices(last'.body) :
                             last'.body[i]["id"] = last.body[1]["id"]}) = 1
          /\ \A i \in Indices(last'.body) :
                last'.body[i]["id"] = last.body[1]["id"] =>
                    /\ last'.body[i] = last.body[1]
                    /\ MatchesTrimmed(last'.body[i], last)]_vars

\* a create has just succeeded whose input, once trimmed, equals that of an
\* earlier create: two stored records match it, one carries the returned id
C4_Witness ==
    /\ last.op = "create" /\ last.status = 200
    /\ last.message # strip(last.message)
    /\ Cardinality({i \in Indices(announcements_collection) :
                       MatchesTrimmed(announcements_collection[i], last)}) = 2
    /\ Cardinality({i \in Indices(announcements_collection) :
                       announcements_collection[i]["_id"] = last.body[1]["id"]}) = 1

\* C6 as stated: a successful update sets updated_at on its target and returns
\* it; a record carries updated_at only once an update of it has succeeded
\* (a created record has none, and no other step adds or removes one).
C6_UpdateSetsUpdatedAt ==
    [][LET coll  == announcements_collection
           coll2 == announcements_collection'
       IN  /\ (Served("update") /\ last'.status = 200) =>
                 /\ "updated_at" \in DOMAIN last'.body[1]
                 /\ \A i \in Indices(coll2) :
                       coll2[i]["_id"] = ObjectId(last'.announcement_id) =>
                           "updated_at" \in DOMAIN coll2[i]
           /\ (Served("create") /\ last'.status = 200) =>
                 "updated_at" \notin DOMAIN coll2[Len(coll2)]
           /\ ~(Served("update") /\ last'.status = 200) =>
                 \A i \in Indices(coll), j \in Indices(coll2) :
                     coll[i]["_id"] = coll2[j]["_id"] =>
                         ("updated_at" \in DOMAIN coll[i]
                            <=> "updated_at" \in DOMAIN coll2[j])]_vars

\* supplementary to C4: with the message compared after trimming, the stated
\* "exactly one" still fails once an earlier create had the same input
C4_ExactlyOneMatchesTrimmedInput ==
    [][CreateThenListAll =>
          Cardinality({i \in Indices(last'.body) :
                          MatchesTrimmed(last'.body[i], last)}) = 1]_vars

\* a credential that resolves to a registered principal
Authenticated(u) == u # None /\ u # EmptyStr /\ u \in teachers_collection

Guarded == {"list_all", "create", "update", "delete"}

\* C2: list_all, create, update and delete, called with a missing credential or
\* one that resolves to no registered principal, answer 401 and leave the store
\* unchanged, whatever the id, message and dates; list_active needs none.
C2_UnauthorizedFirst ==
    [][/\ (last'.op \in Guarded /\ ~Authenticated(last'.teacher_username)) =>
             /\ last'.status = 401
             /\ last'.body = << >>
             /\ announcements_collection' = announcements_collection
       /\ last'.op \in Guarded => (last'.status = 401
                                     <=> ~Authenticated(last'.teacher_username))
       /\ last'.op = "list_active" => last'.status = 200]_vars

\* an update with an unregistered credential, a malformed id and a blank
\* message is answered 401
C2_Witness ==
    /\ last.op = "update" /\ last.status = 401
    /\ last.teacher_username = T_z
    /\ ~ObjectId_ok(last.announcement_id)
    /\ strip(last.message) = << >>

\* a well-formed identifier, as the store prints it or in upper case
WellFormedId(s) == Len(s) = 24 /\ \A i \in 1..24 : IsHex(s[i])

\* an update or delete by an authenticated principal
ByIdRequest(r) == r.op \in {"update", "delete"} /\ Authenticated(r.teacher_username)

IsCalendarDate(s) == s # None /\ Len(s) = 10 /\ IsCalendarPrefix(s)

\* C7 as stated: every stored announcement has a message that is non-empty
\* with no leading or trailing whitespace, an expiration_date that is present
\* and a valid calendar date, and start_date <= expiration_date when its
\* start_date is present.
C7_StoredRecordsValid ==
    \A i \in Indices(announcements_collection) :
        LET a == announcements_collection[i]
        IN  /\ a["message"] # << >>
            /\ ~IsSpace(a["message"][1])
            /\ ~IsSpace(a["message"][Len(a["message"])])
            /\ IsCalendarDate(a["expiration_date"])
            /\ Truthy(a["start_date"]) =>
                   StrLeq(a["start_date"], a["expiration_date"])

\* supplementary to C7: what the stored records do satisfy, the expiration
\* being whatever datetime.fromisoformat accepts
C7_StoredRecordsParse ==
    \A i \in Indices(announcements_collection) :
        LET a == announcements_collection[i]
        IN  /\ a["message"] # << >>
            /\ a["message"] = strip(a["message"])
            /\ fromisoformat_ok(a["expiration_date"])
            /\ Truthy(a["start_date"]) =>
                   /\ fromisoformat_ok(a["start_date"])
                   /\ StrLeq(a["start_date"], a["expiration_date"])

\* the reason create is to give for an input, by the checks in their order,
\* a date being valid when it is a calendar date; "" when every check passes
CreateReason(m, e, s, today) ==
    IF strip(m) = << >> THEN "message"
    ELSE IF e = << >> \/ ~IsCalendarDate(e) THEN "expiration format"
    ELSE IF Truthy(s) /\ ~IsCalendarDate(s) THEN "start format"
    ELSE IF StrLess(e, today) THEN "expiration past"
    ELSE IF Truthy(s) /\ StrLess(e, s) THEN "start after expiration"
    ELSE ""

\* the reason a response gives
ReasonOf(detail) ==
    IF detail = "Message is required" THEN {"message"}
    ELSE IF detail = "Expiration date is required" THEN {"expiration format"}
    ELSE IF detail = "Invalid date format. Use YYYY-MM-DD"
    THEN {"expiration format", "start format"}
    ELSE IF detail = "Expiration date must be in the future" THEN {"expiration past"}
    ELSE IF detail = "Start date must be before expiration date"
    THEN {"start after expiration"}
    ELSE {""}

\* C3 as stated: create by an authenticated principal checks, in this order,
\* the message, the expiration_date (present, a valid ISO date), the
\* start_date (a valid ISO date if present), expiration_date >= today and
\* start_date <= expiration_date; the first check that fails decides the 400
\* reason and nothing is stored; an expiration_date of today passes.
C3_FirstFailingCheckDecides ==
    [][(last'.op = "create" /\ Authenticated(last'.teacher_username)) =>
          LET want == CreateReason(last'.message, last'.expiration_date,
                                   last'.start_date, Today)
          IN  /\ want \in ReasonOf(last'.detail)
              /\ want # "" =>
                    /\ last'.status = 400
                    /\ announcements_collection' = announcements_collection
              /\ want = "" => last'.status = 200]_vars

\* supplementary to C3: the same order holds of the code when a date counts
\* as valid exactly when datetime.fromisoformat accepts it
C3_OrderByParser ==
    [][(last'.op = "create" /\ Authenticated(last'.teacher_username)) =>
          LET m == last'.message
              e == last'.expiration_date
              s == last'.start_date
              want == IF strip(m) = << >> THEN "message"
                      ELSE IF e = << >> \/ ~fromisoformat_ok(e)
                      THEN "expiration format"
                      ELSE IF Truthy(s) /\ ~fromisoformat_ok(s) THEN "start format"
                      ELSE IF StrLess(e, Today) THEN "expiration past"
                      ELSE IF Truthy(s) /\ StrLess(e, s)
                      THEN "start after expiration"
                      ELSE ""
          IN  /\ want \in ReasonOf(last'.detail)
              /\ want # "" =>
                    /\ last'.status = 400
                    /\ announcements_collection' = announcements_collection
              /\ want = "" => last'.status = 200]_vars

\* C10 as stated: an update of an id no record has answers 404 and creates
\* nothing, in every interleaving of store calls: when a concurrent delete
\* removes the target after the existence check, the update still ends with
\* the post-update record or with 404, never with a 500, and no update step
\* adds a record to the store.
C10_UpdateEndsUpdatedOrNotFound ==
    [][/\ (last'.op = "update" /\ last' # last
             /\ WellFormedId(last'.announcement_id)) =>
             \/ last'.status = 404
             \/ /\ last'.status = 200
                /\ \E i \in Indices(announcements_collection') :
                       Wire(announcements_collection'[i], last'.body[1])
       /\ (\E w \in Workers : inflight'[w] # inflight[w]) =>
             IdsOf(announcements_collection') \subseteq IdsOf(announcements_collection)
      ]_vars

\* supplementary to C10: the part the code does keep: no step of an update
\* adds a record, and an update that finds no record at its existence check
\* answers 404
C10_UpdateNeverCreates ==
    [][/\ (\E w \in Workers : inflight'[w] # inflight[w]) =>
             IdsOf(announcements_collection') \subseteq IdsOf(announcements_collection)
       /\ (/\ last'.op = "update" /\ last' # last
           /\ \A w \in Workers : inflight'[w] = inflight[w]
           /\ WellFormedId(last'.announcement_id)
           /\ ObjectId(last'.announcement_id) \notin IdsOf(announcements_collection))
             => last'.status = 404]_vars

=============================================================================
